---- MODULE Spec2Model ----
(***************************************************************************)
(* Model of .yamato/ruamel/jobs/projects/project_all.py: the construction  *)
(* of a Project_AllJob (__init__ calling get_job_definition).  One action  *)
(* per statement group of the source; Python dicts are functions whose     *)
(* DOMAIN is the set of keys present, so a subscript on an absent key      *)
(* raises KeyError exactly where the source evaluates it.  pc is the       *)
(* statement about to run, "done" after a finished construction and        *)
(* "raised" after an exception has left it.  calls and namer_called,       *)
(* entries_read record what has been called and read so far.               *)
(***************************************************************************)
EXTENDS Integers, Sequences, FiniteSets, TLC

VARIABLES project_name, editor, dependencies_in_all,
          pc, self, dependencies, i, j, job, calls, namer_called,
          entries_read, exc

vars == <<project_name, editor, dependencies_in_all,
          pc, self, dependencies, i, j, job, calls, namer_called,
          entries_read, exc>>

inputs == <<project_name, editor, dependencies_in_all>>

\* ---------------------------------------------------------------- bounds
\* most entries of dependencies_in_all, and most test platform names over all
\* of its entries together
MaxEntries == 2
MaxRefs == 3

\* ------------------------------------------------------- python dictionaries
EmptyDict == [k \in {} |-> ""]

HasKey(d, k) == k \in DOMAIN d

\* d[k]: <<>> when the key is absent (the subscript raises KeyError), else
\* <<value>>
Subscript(d, k) == IF HasKey(d, k) THEN <<d[k]>> ELSE <<>>

\* an optional key: <<>> leaves the key out, <<v>> sets it
DictOf(k, opt) == IF opt = <<>> THEN EmptyDict ELSE (k :> opt[1])

Optional(S) == {<<>>} \cup {<<v>> : v \in S}

SeqsUpTo(S, n) == UNION {[1..m -> S] : m \in 0..n}

\* ------------------------------------------------------------ input domains
ProjectNames == {"MyGame", "Demo"}
Versions == {"2021.3", "trunk"}
RerunStrategies == {"on-new-revision", "always"}
PlatformNames == {"Win"}
ApiNames == {"d3d11"}
TestPlatformNames == {"standalone", "editmode"}

Editors ==
    {DictOf("version", v) @@ DictOf("rerun_strategy", r) :
        v \in Optional(Versions), r \in Optional(RerunStrategies)}

DependencyEntries ==
    {DictOf("platform_name", p) @@ DictOf("api_name", a)
        @@ DictOf("test_platform_names", t) :
        p \in Optional(PlatformNames), a \in Optional(ApiNames),
        t \in Optional(SeqsUpTo(TestPlatformNames, MaxRefs))}

\* the number of test platform names the entry d holds
NamesOf(d) ==
    IF HasKey(d, "test_platform_names") THEN Len(d["test_platform_names"]) ELSE 0

\* the number of test platform names the entries of ds hold together
RECURSIVE TotalNames(_)
TotalNames(ds) ==
    IF ds = <<>> THEN 0 ELSE NamesOf(Head(ds)) + TotalNames(Tail(ds))

\* ------------------------------------------------ utils.namer (collaborator)
\* Opaque deterministic key generators: uninterpreted terms over their
\* arguments.
project_job_id_all(pn, ver) ==
    <<"project_job_id_all", pn, ver>>

project_filepath_specific(pn, platform, api) ==
    <<"project_filepath_specific", pn, platform, api>>

project_job_id_test(pn, platform, api, tpn, ver) ==
    <<"project_job_id_test", pn, platform, api, tpn, ver>>

\* ---------------------------------------------- utils.yml_job (collaborator)
\* The builder object: a name, a dependency list and a custom revision, each
\* unset (<<>>) or empty on a fresh object.
YMLJob == [name |-> <<>>, dependencies |-> <<>>, custom_revision |-> <<>>]

set_name(jb, name) == [jb EXCEPT !.name = <<name>>]

add_dependencies(jb, deps) == [jb EXCEPT !.dependencies = @ \o deps]

add_var_custom_revision(jb, ver) == [jb EXCEPT !.custom_revision = <<ver>>]

\* ------------------------------------------------------------- expressions
\* line 16: dependencies = []
\* (faulty variant: the list starts with a placeholder element)
InitialDependencies_placeholder == <<[path |-> <<>>, rerun |-> ""]>>

InitialDependencies == <<>>

\* line 32: f'All {project_name} CI - {editor["version"]}'
\* (faulty variant: the version is left out of the name)
JobName_without_version(pn, ver) == "All " \o pn \o " CI"

JobName(pn, ver) == "All " \o pn \o " CI - " \o ver

\* line 34: the argument of add_var_custom_revision
\* (faulty variant: a fixed revision)
CustomRevision_pinned(ver) == "trunk"

CustomRevision(ver) == ver

\* line 25: f'{file_name}#{job_id}'
DependencyPath(file_name, job_id) == <<file_name, "#", job_id>>

\* lines 24-27: the dict literal
\* (faulty variant: a fixed rerun value)
DependencyReference_rerun_always(path, rerun) == [path |-> path, rerun |-> "always"]

DependencyReference(path, rerun) == [path |-> path, rerun |-> rerun]

\* line 23: dependencies.append(...)
\* (faulty variants: a reference already in the list is not added again; the
\* reference is put in front)
AppendReference_unique(deps, ref) ==
    IF \E k \in 1..Len(deps) : deps[k] = ref THEN deps ELSE Append(deps, ref)

AppendReference_front(deps, ref) == <<ref>> \o deps

AppendReference(deps, ref) == Append(deps, ref)

\* line 26: editor["rerun_strategy"]
\* (faulty variant: an absent key yields a default, as editor.get would)
RerunStrategyOf_defaulted(ed) ==
    IF HasKey(ed, "rerun_strategy") THEN <<ed["rerun_strategy"]>> ELSE <<"always">>

RerunStrategyOf(ed) == Subscript(ed, "rerun_strategy")

\* an entry of the log of calls made on the builder: the operation and the
\* arguments it received
Call(op, args) == [op |-> op, args |-> args]

\* ------------------------------------------------------------- exceptions
NoException == [type |-> "none", key |-> ""]
KeyError(k) == [type |-> "KeyError", key |-> k]

\* No statement of the class sits in a try block: an exception ends the
\* construction.
\* (faulty variant: the exception is recorded and the job is built anyway)
Raise_and_carry_on(e) ==
    /\ exc' = e
    /\ pc' = "construct"

Raise(e) ==
    /\ exc' = e
    /\ pc' = "raised"

\* ------------------------------------------------------------------ Init
Init ==
    /\ \E n \in 0..MaxEntries : dependencies_in_all \in [1..n -> DependencyEntries]
    /\ TotalNames(dependencies_in_all) <= MaxRefs
    /\ project_name \in ProjectNames
    /\ editor \in Editors
    /\ pc = "init"
    /\ self = EmptyDict
    /\ dependencies = <<>>
    /\ i = 1
    /\ j = 1
    /\ job = <<>>
    /\ calls = <<>>
    /\ namer_called = {}
    /\ entries_read = 0
    /\ exc = NoException

\* lines 8-9: self.project_name = ...; self.job_id = project_job_id_all(...)
\* (faulty variant: the job id is not computed, so editor["version"] is first
\* read inside get_job_definition)
init_job_id_without_version ==
    /\ pc = "init"
    /\ self' = ("project_name" :> project_name)
    /\ pc' = "define_dependencies"
    /\ UNCHANGED <<inputs, dependencies, i, j, job, calls, namer_called,
                   entries_read, exc>>

init_job_id ==
    /\ pc = "init"
    /\ LET version == Subscript(editor, "version")
       IN IF version = <<>>
          THEN /\ self' = ("project_name" :> project_name)
               /\ namer_called' = namer_called
               /\ Raise(KeyError("version"))
          ELSE /\ self' = ("project_name" :> project_name)
                          @@ ("job_id" :> project_job_id_all(project_name, version[1]))
               /\ namer_called' = namer_called \cup {"project_job_id_all"}
               /\ pc' = "define_dependencies"
               /\ exc' = exc
    /\ UNCHANGED <<inputs, dependencies, i, j, job, calls, entries_read>>

\* line 10 entering get_job_definition, line 16
define_dependencies ==
    /\ pc = "define_dependencies"
    /\ dependencies' = InitialDependencies
    /\ pc' = "for_d"
    /\ UNCHANGED <<inputs, self, i, j, job, calls, namer_called, entries_read, exc>>

\* lines 17-18: "for d in dependencies_in_all", then the evaluation of
\* d["test_platform_names"] that starts the inner loop
for_d ==
    /\ pc = "for_d"
    /\ IF i > Len(dependencies_in_all)
       THEN /\ pc' = "construct"
            /\ UNCHANGED <<entries_read, j, exc>>
       ELSE /\ entries_read' = entries_read + 1
            /\ IF Subscript(dependencies_in_all[i], "test_platform_names") = <<>>
               THEN /\ j' = j
                    /\ Raise(KeyError("test_platform_names"))
               ELSE /\ j' = 1
                    /\ pc' = "for_test_platform_name"
                    /\ exc' = exc
    /\ UNCHANGED <<inputs, self, dependencies, i, job, calls, namer_called>>

\* The first key of the sequence ks that the dict d lacks, "" when none:
\* subscripts are evaluated left to right.
RECURSIVE FirstMissing(_, _)
FirstMissing(d, ks) ==
    IF ks = <<>> THEN ""
    ELSE IF ~HasKey(d, Head(ks)) THEN Head(ks)
    ELSE FirstMissing(d, Tail(ks))

\* lines 18-28: one iteration of "for test_platform_name in ...", or the end
\* of the inner loop.  The body evaluates, in this order, d["platform_name"]
\* and d["api_name"] (line 20, then again on line 21), editor["version"]
\* (line 21) and editor["rerun_strategy"] (line 26).
for_test_platform_name ==
    /\ pc = "for_test_platform_name"
    /\ LET d == dependencies_in_all[i]
           names == d["test_platform_names"]
           missing == FirstMissing(d, <<"platform_name", "api_name">>)
           version == Subscript(editor, "version")
           rerun == RerunStrategyOf(editor)
       IN IF j > Len(names)
          THEN /\ i' = i + 1
               /\ pc' = "for_d"
               /\ UNCHANGED <<j, dependencies, namer_called, exc>>
          ELSE /\ i' = i
               /\ j' = j + 1
               /\ IF missing # ""
                  THEN /\ Raise(KeyError(missing))
                       /\ UNCHANGED <<dependencies, namer_called>>
                  ELSE IF version = <<>>
                  THEN /\ namer_called' = namer_called \cup {"project_filepath_specific"}
                       /\ Raise(KeyError("version"))
                       /\ UNCHANGED dependencies
                  ELSE /\ namer_called' = namer_called \cup
                              {"project_filepath_specific", "project_job_id_test"}
                       /\ IF rerun = <<>>
                          THEN /\ Raise(KeyError("rerun_strategy"))
                               /\ UNCHANGED dependencies
                          ELSE /\ dependencies' = AppendReference(dependencies,
                                      DependencyReference(
                                          DependencyPath(
                                              project_filepath_specific(project_name,
                                                  d["platform_name"], d["api_name"]),
                                              project_job_id_test(project_name,
                                                  d["platform_name"], d["api_name"],
                                                  names[j], version[1])),
                                          rerun[1]))
                               /\ pc' = pc
                               /\ exc' = exc
    /\ UNCHANGED <<inputs, self, job, calls, entries_read>>

\* line 31: job = YMLJob()
construct_job ==
    /\ pc = "construct"
    /\ job' = <<YMLJob>>
    /\ calls' = Append(calls, Call("YMLJob", <<>>))
    /\ pc' = "set_name"
    /\ UNCHANGED <<inputs, self, dependencies, i, j, namer_called, entries_read, exc>>

\* line 32
job_set_name ==
    /\ pc = "set_name"
    /\ LET version == Subscript(editor, "version")
       IN IF version = <<>>
          THEN /\ Raise(KeyError("version"))
               /\ UNCHANGED <<job, calls>>
          ELSE /\ job' = <<set_name(job[1], JobName(project_name, version[1]))>>
               /\ calls' = Append(calls, Call("set_name", <<JobName(project_name, version[1])>>))
               /\ pc' = "add_dependencies"
               /\ exc' = exc
    /\ UNCHANGED <<inputs, self, dependencies, i, j, namer_called, entries_read>>

\* line 33
\* (faulty variant: the call is left out)
job_add_dependencies_left_out ==
    /\ pc = "add_dependencies"
    /\ pc' = "add_var_custom_revision"
    /\ UNCHANGED <<inputs, self, dependencies, i, j, job, calls, namer_called,
                   entries_read, exc>>

job_add_dependencies ==
    /\ pc = "add_dependencies"
    /\ job' = <<add_dependencies(job[1], dependencies)>>
    /\ calls' = Append(calls, Call("add_dependencies", <<dependencies>>))
    /\ pc' = "add_var_custom_revision"
    /\ UNCHANGED <<inputs, self, dependencies, i, j, namer_called, entries_read, exc>>

\* line 34
job_add_var_custom_revision ==
    /\ pc = "add_var_custom_revision"
    /\ LET version == Subscript(editor, "version")
       IN IF version = <<>>
          THEN /\ Raise(KeyError("version"))
               /\ UNCHANGED <<job, calls>>
          ELSE /\ job' = <<add_var_custom_revision(job[1], CustomRevision(version[1]))>>
               /\ calls' = Append(calls,
                              Call("add_var_custom_revision", <<CustomRevision(version[1])>>))
               /\ pc' = "return"
               /\ exc' = exc
    /\ UNCHANGED <<inputs, self, dependencies, i, j, namer_called, entries_read>>

\* line 35 and the rest of line 10: return job; self.yml = <returned job>.yml
return_job ==
    /\ pc = "return"
    /\ self' = self @@ ("yml" :> job[1])
    /\ calls' = Append(calls, Call("yml", <<>>))
    /\ pc' = "done"
    /\ UNCHANGED <<inputs, dependencies, i, j, job, namer_called, entries_read, exc>>

Next ==
    \/ init_job_id
    \/ define_dependencies
    \/ for_d
    \/ for_test_platform_name
    \/ construct_job
    \/ job_set_name
    \/ job_add_dependencies
    \/ job_add_var_custom_revision
    \/ return_job

Spec == Init /\ [][Next]_vars

\* ================================================================ properties
Succeeded == pc = "done"
Failed == pc = "raised"

\* the statements after the loops (lines 31-35 and the assignment of line 10)
AfterLoops ==
    {"construct", "set_name", "add_dependencies", "add_var_custom_revision",
     "return", "done"}

BuilderOperations == {"set_name", "add_dependencies", "add_var_custom_revision"}

Called == {calls[k].op : k \in 1..Len(calls)}

\* the argument the builder operation op received
Passed(op) ==
    LET k == CHOOSE n \in 1..Len(calls) : calls[n].op = op IN calls[k].args[1]

\* the (entry, test platform name) pairs of ds: entries in list order, each
\* entry's names in list order, duplicates kept
RECURSIVE Flattening(_)
Flattening(ds) ==
    IF ds = <<>> THEN <<>>
    ELSE LET d == Head(ds)
         IN [k \in 1..Len(d["test_platform_names"]) |->
                <<d, d["test_platform_names"][k]>>] \o Flattening(Tail(ds))

\* the path the pair pr = <<entry, name>> stands for
PathOfPair(pr) ==
    <<project_filepath_specific(project_name, pr[1]["platform_name"], pr[1]["api_name"]),
      "#",
      project_job_id_test(project_name, pr[1]["platform_name"], pr[1]["api_name"],
                          pr[2], editor["version"])>>

\* C1: the list handed to add_dependencies, and the dependency list of the job
\* a successful construction stores, hold as many references as the entries of
\* dependencies_in_all hold test platform names together.
C1_DependencyCount ==
    /\ "add_dependencies" \in Called =>
          Len(Passed("add_dependencies")) = TotalNames(dependencies_in_all)
    /\ Succeeded =>
          Len(self["yml"].dependencies) = TotalNames(dependencies_in_all)

C1_Witness ==
    /\ Succeeded
    /\ Len(dependencies_in_all) = 2
    /\ NamesOf(dependencies_in_all[1]) = 0
    /\ NamesOf(dependencies_in_all[2]) = 2
    /\ dependencies_in_all[2]["test_platform_names"][1]
          = dependencies_in_all[2]["test_platform_names"][2]
    /\ Len(Passed("add_dependencies")) = 2

\* C2: after a successful construction the k-th reference of the job carries
\* the path of the k-th pair of the flattening of dependencies_in_all; nothing
\* is reordered, dropped or deduplicated.
C2_DependencyOrder ==
    Succeeded =>
        LET out == Passed("add_dependencies")
            pairs == Flattening(dependencies_in_all)
        IN /\ self["yml"].dependencies = out
           /\ Len(out) = Len(pairs)
           /\ \A k \in 1..Len(pairs) : out[k].path = PathOfPair(pairs[k])

C2_Witness ==
    /\ Succeeded
    /\ Len(dependencies_in_all) = 2
    /\ NamesOf(dependencies_in_all[1]) = 2
    /\ NamesOf(dependencies_in_all[2]) = 1
    /\ LET out == Passed("add_dependencies")
       IN /\ Len(out) = 3
          /\ out[1].path # out[2].path
          /\ out[3].path = out[1].path

\* C3: every reference of a successful construction carries
\* editor["rerun_strategy"] as its rerun value.
C3_RerunPassedThrough ==
    /\ "add_dependencies" \in Called =>
          \A k \in 1..Len(Passed("add_dependencies")) :
              Passed("add_dependencies")[k].rerun = editor["rerun_strategy"]
    /\ Succeeded =>
          \A k \in 1..Len(self["yml"].dependencies) :
              self["yml"].dependencies[k].rerun = editor["rerun_strategy"]

C3_Witness ==
    /\ Succeeded
    /\ Len(dependencies_in_all) = 2
    /\ Len(Passed("add_dependencies")) = 3
    /\ editor["rerun_strategy"] = "on-new-revision"
    /\ \A k \in 1..3 : Passed("add_dependencies")[k].rerun = "on-new-revision"

\* C4: the name of the job of a successful construction is
\* "All <project_name> CI - <editor version>", whatever the dependencies.
C4_JobName ==
    /\ "set_name" \in Called =>
          Passed("set_name") = "All " \o project_name \o " CI - " \o editor["version"]
    /\ Succeeded => self["yml"].name = <<Passed("set_name")>>

C4_Witness ==
    /\ Succeeded
    /\ project_name = "MyGame"
    /\ editor["version"] = "2021.3"
    /\ Len(dependencies_in_all) = 1
    /\ Passed("set_name") = "All MyGame CI - 2021.3"

\* C5: the custom revision of the job of a successful construction is
\* editor["version"], the value that also appears in the job's name, in
\* self.job_id and in the job id of every dependency.
C5_CustomRevision ==
    Succeeded =>
        LET revision == Passed("add_var_custom_revision")
        IN /\ revision = editor["version"]
           /\ self["yml"].custom_revision = <<revision>>
           /\ Passed("set_name") = "All " \o project_name \o " CI - " \o revision
           /\ self["job_id"] = project_job_id_all(project_name, revision)
           /\ \A k \in 1..Len(Passed("add_dependencies")) :
                 \E p \in PlatformNames, a \in ApiNames, t \in TestPlatformNames :
                    Passed("add_dependencies")[k].path[3] =
                       project_job_id_test(project_name, p, a, t, revision)

C5_Witness ==
    /\ Succeeded
    /\ editor["version"] = "2021.3"
    /\ Passed("add_var_custom_revision") = "2021.3"
    /\ Len(Passed("add_dependencies")) = 2

\* C6: with an empty dependencies_in_all and an editor holding both keys the
\* construction never raises, runs to its end, and stores a job with no
\* dependency, a name and a custom revision.
C6_EmptyDependencies ==
    (/\ dependencies_in_all = <<>>
     /\ HasKey(editor, "version")
     /\ HasKey(editor, "rerun_strategy")) =>
        /\ ~Failed
        /\ exc = NoException
        /\ Succeeded \/ ENABLED Next
        /\ pc \in AfterLoops => dependencies = <<>>
        /\ Succeeded =>
              /\ self["yml"].dependencies = <<>>
              /\ Len(self["yml"].name) = 1
              /\ Len(self["yml"].custom_revision) = 1

C6_Witness ==
    /\ Succeeded
    /\ dependencies_in_all = <<>>
    /\ HasKey(editor, "rerun_strategy")
    /\ self["yml"].dependencies = <<>>
    /\ self["yml"].name = <<"All Demo CI - trunk">>
    /\ self["yml"].custom_revision = <<"trunk">>

\* C7: without editor["version"] the construction raises in its first
\* statement group: no entry of dependencies_in_all has been read, neither
\* dependency naming function has been called and no reference exists.
C7_MissingVersion ==
    ~HasKey(editor, "version") =>
        /\ pc \in {"init", "raised"}
        /\ Failed =>
              /\ exc = KeyError("version")
              /\ entries_read = 0
              /\ namer_called \cap {"project_filepath_specific", "project_job_id_test"} = {}
              /\ dependencies = <<>>

C7_Witness ==
    /\ Failed
    /\ ~HasKey(editor, "version")
    /\ exc = KeyError("version")
    /\ Len(dependencies_in_all) = 2
    /\ TotalNames(dependencies_in_all) = 3
    /\ entries_read = 0

\* C8 as stated: without editor["rerun_strategy"] every construction ends in a
\* missing-field error, whatever dependencies_in_all is, and stores no job.
C8_AlwaysFails ==
    (~HasKey(editor, "rerun_strategy") /\ (Succeeded \/ Failed)) =>
        /\ Failed
        /\ exc.type = "KeyError"
        /\ ~HasKey(self, "yml")

\* C8 as amended: without editor["rerun_strategy"] the construction ends in a
\* KeyError, storing no job, whenever some entry of dependencies_in_all holds
\* a test platform name; no reference is ever made with a defaulted rerun.
\* When editor holds version and every entry holds an empty
\* test_platform_names, the key is never read and the construction succeeds
\* with an empty dependency list.
C8_FailsWhenAReferenceIsDue ==
    ~HasKey(editor, "rerun_strategy") =>
        /\ dependencies = <<>>
        /\ Succeeded \/ Failed \/ ENABLED Next
        /\ Failed => exc.type = "KeyError" /\ ~HasKey(self, "yml")
        /\ pc \in AfterLoops =>
              /\ HasKey(editor, "version")
              /\ \A k \in 1..Len(dependencies_in_all) :
                    /\ HasKey(dependencies_in_all[k], "test_platform_names")
                    /\ dependencies_in_all[k]["test_platform_names"] = <<>>
        /\ Succeeded => self["yml"].dependencies = <<>>
        /\ (/\ HasKey(editor, "version")
            /\ \A k \in 1..Len(dependencies_in_all) :
                  /\ HasKey(dependencies_in_all[k], "test_platform_names")
                  /\ dependencies_in_all[k]["test_platform_names"] = <<>>) => ~Failed

C8_Witness ==
    /\ Failed
    /\ ~HasKey(editor, "rerun_strategy")
    /\ exc = KeyError("rerun_strategy")
    /\ Len(dependencies_in_all) = 2
    /\ dependencies_in_all[1]["test_platform_names"] = <<>>
    /\ i = 2
    /\ ~HasKey(self, "yml")

\* C9: the builder is constructed, then receives set_name, add_dependencies
\* and add_var_custom_revision once each in this order, then its yml is read;
\* nothing is called on it before the loops have ended, and add_dependencies
\* receives the whole list in its one call.
ExpectedCalls ==
    <<"YMLJob", "set_name", "add_dependencies", "add_var_custom_revision", "yml">>

C9_BuilderCallOrder ==
    /\ Len(calls) <= Len(ExpectedCalls)
    /\ \A k \in 1..Len(calls) : calls[k].op = ExpectedCalls[k]
    /\ calls # <<>> => pc \in AfterLoops /\ i = Len(dependencies_in_all) + 1
    /\ pc \in {"add_var_custom_revision", "return", "done"} =>
          /\ "add_dependencies" \in Called
          /\ Passed("add_dependencies") = dependencies
          /\ Len(dependencies) = TotalNames(dependencies_in_all)
    /\ pc = "return" => Len(calls) = 4
    /\ Succeeded => Len(calls) = Len(ExpectedCalls)
    /\ HasKey(self, "yml") => Succeeded

C9_Witness ==
    /\ Succeeded
    /\ [k \in 1..Len(calls) |-> calls[k].op] = ExpectedCalls
    /\ Len(dependencies_in_all) = 2
    /\ Len(Passed("add_dependencies")) = 3

\* C10: when the construction has raised, no builder operation has been called,
\* the builder's yml has not been read and self.yml is not assigned, however
\* many references the loops had made.
C10_NoPartialJob ==
    exc # NoException =>
        /\ Failed
        /\ Called \cap (BuilderOperations \cup {"yml"}) = {}
        /\ ~HasKey(self, "yml")

C10_Witness ==
    /\ Failed
    /\ exc = KeyError("api_name")
    /\ Len(dependencies) = 2
    /\ i = 2
    /\ Called = {}
    /\ ~HasKey(self, "yml")

====
